---- MODULE Spec2Model ----
(***************************************************************************)
(* State-machine model of the mdui widgets' visibility protocol.           *)
(*                                                                         *)
(* Dialog (packages/mdui/src/components/dialog/index.ts): the `open`       *)
(* property, Lit's batched update that calls the @watch('open') handler    *)
(* onOpenChange, and every suspension point of that async handler          *)
(* (whenDefined, updateComplete, stopAnimation, the animation sets), so    *)
(* that several invocations of one dialog, and the invocations of two      *)
(* dialogs, interleave the way promise continuations do.                   *)
(*                                                                         *)
(* BottomAppBar (packages/mdui/src/components/bottom-app-bar/index.ts):    *)
(* the `hide` property, runScrollThreshold and the transitionend listener. *)
(*                                                                         *)
(* Checkbox and Select (packages/mdui/src/components/checkbox/index.ts,    *)
(* select/index.ts): the host properties, the inner native input that the  *)
(* render keeps in step with them, the validity methods and the handlers   *)
(* of the inner events.                                                    *)
(*                                                                         *)
(* $.fn.map (select/index.ts lines 585-621) as a function of a collection  *)
(* and a callback.                                                         *)
(***************************************************************************)
EXTENDS Integers, Sequences, FiniteSets, TLC

(* ------------------------------ bounds -------------------------------- *)

\* Total number of writes to an `open` property (over all dialogs).
MaxWrites == 3

\* Number of inputs (scroll signals, transitionend events, property writes)
\* the bottom app bar receives.
MaxSignals == 3

\* Longest array value of the select.
MaxItems == 3

\* Longest collection $.fn.map is applied to.
MaxLen == 3

\* Number of keydown events and overlay clicks the dialogs receive.
MaxInputs == 2

(* ----------------------------- universe ------------------------------- *)

\* The dialogs of the page.
Dialogs == {"d1", "d2"}

\* Focusable elements of the page outside the dialogs.
PageElements == {"body", "btn"}

\* document.activeElement ranges over page elements and dialog panels (a
\* dialog's panel, or its [autofocus] child, is named by the dialog).
FocusTargets == PageElements \cup Dialogs

\* Value of `originalTrigger` before the first assignment (declared with `!`).
Undefined == "undefined"

VARIABLES
  open,            \* [Dialogs -> BOOLEAN]  the `open` property
  hasUpdated,      \* [Dialogs -> BOOLEAN]  LitElement.hasUpdated
  changedOld,      \* [Dialogs -> {"none","undefined","true","false"}]
                   \*   changedProperties.get('open') of the pending update
  display,         \* [Dialogs -> {"unset","flex","none"}]  this.style.display
  modalActive,     \* [Dialogs -> BOOLEAN]  modalHelper activated
  originalTrigger, \* [Dialogs -> FocusTargets \cup {Undefined}]
  marginTop,       \* [Dialogs -> {"unset","0"}]  bodyRef.style.marginTop
  topAppBar,       \* [Dialogs -> BOOLEAN]  a <mdui-top-app-bar> is slotted
                   \*   into the header
  attached,        \* the dialogs attached to the document
  written,         \* [Dialogs -> record]  history of the writes: `quiet`,
                   \*   whether every write so far was made when the earlier
                   \*   transitions were over; `focus`, the element that had
                   \*   the focus when `open` was last set to true
  inv,             \* [Dialogs -> Seq(invocation record)]  onOpenChange calls
  anims,           \* [Dialogs -> SUBSET run]  animation sets running on the
                   \*   dialog's overlay, panel and children
  lockCount,       \* the shared scroll-lock counter
  activeElement,   \* document.activeElement
  rafFocus,        \* [Dialogs -> BOOLEAN]  a requestAnimationFrame focus
                   \*   callback of the dialog is pending
  timerQueue,      \* Seq(<<d, k, target>>)  pending setTimeout focus tasks
  writesLeft,      \* remaining budget of property writes
  bar,             \* the bottom app bar: [hide |-> its `hide` property,
                   \*   log |-> one entry per input it has received]
  controls,        \* the form controls attached to the document
  checkbox,        \* the checkbox: its properties, its inner <input>, the
                   \*   pending update, its formResets entry and what its
                   \*   last operation did
  select,          \* the select, likewise; `held` is the array that was
                   \*   its value before the last chip was deleted, as the
                   \*   application that holds it reads it now
  jq,              \* a call of $.fn.map: the collection (and what it was
                   \*   before the call), the callback, the calls of the
                   \*   callback and the collection returned
  ui               \* the dialogs' closeOnEsc and closeOnOverlayClick
                   \*   properties, the number of keydown events and overlay
                   \*   clicks the dialogs have received, and what the
                   \*   listener did with the last one

\* The state of the dialogs.
dialogVars == <<open, hasUpdated, changedOld, display, modalActive,
                originalTrigger, marginTop, topAppBar, attached, written, inv,
                anims, lockCount, activeElement, rafFocus, timerQueue,
                writesLeft>>

vars == <<dialogVars, bar, controls, checkbox, select, jq, ui>>

\* What no step of onOpenChange changes: the slotted top app bars, the
\* attachment of the dialogs, the other widgets of the page, and the
\* dialogs' close-on flags with the record of the user's input.
page == <<topAppBar, attached, bar, controls, checkbox, select, jq, ui>>

(* ------------------------------ helpers ------------------------------- *)

\* `written` before the first write.
NoWrite == [quiet |-> TRUE, focus |-> Undefined]

\* The bottom app bar after construction: `hide = false` (line 49).
BarNew == [hide |-> FALSE, log |-> <<>>]

\* What an operation of a form control did: the effects in order, the result
\* of the native validity check it made, the value it returned and the
\* displayed invalid state before it.
NoOp ==
  [op |-> "none", fx |-> <<>>, native |-> "none", ret |-> "none",
   was |-> "none"]

\* No update of the checkbox is pending.
NoUpdate ==
  [set |-> FALSE, checked |-> FALSE, indeterminate |-> FALSE,
   required |-> FALSE]

\* The checkbox after its first update (lines 64-100, 142): nothing checked,
\* nothing required, the inner input rendered from the properties.
CheckboxNew ==
  [checked |-> FALSE, indeterminate |-> FALSE, required |-> FALSE,
   invalid |-> FALSE,
   input |-> [checked |-> FALSE, required |-> FALSE, custom |-> FALSE],
   old |-> NoUpdate, resets |-> FALSE, last |-> NoOp]

\* A select value: a string (`items` holds it, or nothing for '') or an
\* array of strings.
Str(items) == [isArray |-> FALSE, items |-> items]
Arr(items) == [isArray |-> TRUE, items |-> items]

\* The select after its first update (select/index.ts lines 101-108,
\* 229-242): single, value '', nothing required.
SelectNew ==
  [multiple |-> FALSE, value |-> Str(<<>>), required |-> FALSE,
   invalid |-> FALSE,
   input |-> [multiple |-> FALSE, hasSelection |-> FALSE,
              required |-> FALSE, custom |-> FALSE],
   defaultValue |-> Str(<<>>), held |-> Arr(<<>>),
   dirty |-> FALSE, resets |-> FALSE, last |-> NoOp]

\* The close-on flags after construction (lines 110, 121: both false), and
\* no user input yet.
UiNew ==
  [closeOnEsc |-> [d \in {"d1", "d2"} |-> FALSE],
   closeOnOverlayClick |-> [d \in {"d1", "d2"} |-> FALSE],
   inputs |-> 0,
   last |-> [d |-> "d1", input |-> "none", key |-> "none",
             closeOnEsc |-> FALSE, closeOnOverlayClick |-> FALSE,
             was |-> FALSE, fx |-> <<>>, now |-> FALSE]]

\* No call of $.fn.map has been made.
JqIdle ==
  [input |-> <<>>, before |-> <<>>, callback |-> "element", calls |-> <<>>,
   result |-> <<>>, done |-> FALSE]

\* The widgets of the page other than the dialogs, after construction.
InitWidgets ==
  /\ bar = BarNew
  /\ controls = {}
  /\ checkbox = CheckboxNew
  /\ select = SelectNew
  /\ jq = JqIdle
  /\ ui = UiNew

BoolStr(b) == IF b THEN "true" ELSE "false"

Has(s, e) == \E i \in 1..Len(s) : s[i] = e

\* Position of the first occurrence of e in s (0 when absent).
Pos(s, e) == IF Has(s, e) THEN CHOOSE i \in 1..Len(s) :
                                  s[i] = e /\ \A j \in 1..(i-1) : s[j] # e
             ELSE 0

Invs(d) == 1..Len(inv[d])

\* The effects invocation k of dialog d has performed so far, in code order.
Fx(d, k) == inv[d][k].fx

SetInv(d, k, pc, add) ==
  [inv EXCEPT ![d][k].pc = pc, ![d][k].fx = @ \o add]

(* --------------------- shared helpers (spec-modelled) ------------------ *)

\* lockScreen: the shared counter is incremented.
LockScreen(n) == n + 1

\* unlockScreen: the shared counter is decremented (never below zero).
UnlockScreen(n) == IF n > 0 THEN n - 1 ELSE 0

\* Scrolling is locked while the count is positive.
ScrollLocked == lockCount > 0

\* stopAnimations on overlay, panel and children: every running animation
\* set on these nodes is canceled synchronously.
StopAnimations(runs) == {}

\* The runs seen canceled by their owners (their completion signal fires).
CanceledOwners(d) == {r.owner : r \in anims[d] \ StopAnimations(anims[d])}

\* inv after the runs of dialog d were stopped by invocation k, which moves
\* to pc and records `add`; owners of canceled runs record "run_canceled".
StopBy(d, k, pc, add) ==
  [inv EXCEPT ![d] = [j \in Invs(d) |->
     IF j = k THEN [@[j] EXCEPT !.pc = pc, !.fx = @ \o add]
     ELSE IF j \in CanceledOwners(d)
          THEN [@[j] EXCEPT !.fx = @ \o <<"run_canceled">>]
          ELSE @[j]]]

(* ------------------------- decisions of the code ---------------------- *)

SkipsHandler_Never(isOpen, updated) == FALSE

\* Line 191: first render in the closed state does nothing.
SkipsHandler(isOpen, updated) == ~isOpen /\ ~updated

EmitsOpenEvents_Never(updated) == FALSE

\* Lines 222, 312: events are emitted only after the first render.
EmitsOpenEvents(updated) == updated

AbortsOpen_Never(defaultPrevented) == FALSE

\* Lines 226-228: a prevented 'open' event returns from the handler.
AbortsOpen(defaultPrevented) == defaultPrevented

AbortsClose_Never(defaultPrevented) == FALSE

\* Lines 319-321: a prevented 'close' event returns from the handler.
AbortsClose(defaultPrevented) == defaultPrevented

OpenAfterIntent_Revert(flag, defaultPrevented) ==
  IF defaultPrevented THEN ~flag ELSE flag

\* Lines 223-228, 316-321: the value of this.open after the intent event was
\* emitted; neither branch assigns it, prevented or not.
OpenAfterIntent(flag, defaultPrevented) == flag

OpenDuration_Token(updated) == "medium4"

\* Lines 265, 272: the open animations' duration.
OpenDuration(updated) == IF updated THEN "medium4" ELSE "0"

\* Line 326: the close animations' duration.
CloseDuration == "short4"

CanFocus_Never(trigger) == FALSE

\* Line 360: typeof trigger?.focus === 'function'.
CanFocus(trigger) == trigger # Undefined

(* -------------------------------- Init -------------------------------- *)

\* After construction: `open = false` was assigned by the field initializer,
\* which Lit records as a change from undefined; nothing has rendered.
InitDialogs ==
  /\ open = [d \in Dialogs |-> FALSE]
  /\ hasUpdated = [d \in Dialogs |-> FALSE]
  /\ changedOld = [d \in Dialogs |-> "undefined"]
  /\ display = [d \in Dialogs |-> "unset"]
  /\ modalActive = [d \in Dialogs |-> FALSE]
  /\ originalTrigger = [d \in Dialogs |-> Undefined]
  /\ marginTop = [d \in Dialogs |-> "unset"]
  /\ topAppBar \in [Dialogs -> BOOLEAN]
  /\ written = [d \in Dialogs |-> NoWrite]
  /\ inv = [d \in Dialogs |-> <<>>]
  /\ anims = [d \in Dialogs |-> {}]
  /\ lockCount = 0
  /\ activeElement = "body"
  /\ rafFocus = [d \in Dialogs |-> FALSE]
  /\ timerQueue = <<>>
  /\ writesLeft = MaxWrites

\* A page with one dialog.
Init ==
  /\ InitDialogs
  /\ InitWidgets
  /\ attached = {"d1"}
  /\ \A d \in Dialogs \ attached : ~topAppBar[d]

\* A page with two dialogs (without top app bars).
InitPair ==
  /\ InitDialogs
  /\ InitWidgets
  /\ attached = Dialogs
  /\ \A d \in Dialogs : ~topAppBar[d]

(* ------------------------------ actions ------------------------------- *)

\* No transition of dialog d is under way: every handler call has returned
\* and no update is pending (other than the first render).
Quiet(d) ==
  /\ changedOld[d] = "none" \/ ~hasUpdated[d]
  /\ \A j \in Invs(d) : inv[d][j].pc = "done"

\* An assignment `this.open = v` that changes the value: Lit keeps the
\* oldest old value of a pending update and requests an update.
WriteOpen(d, v) ==
  /\ d \in attached
  /\ writesLeft > 0
  /\ v # open[d]
  /\ open' = [open EXCEPT ![d] = v]
  /\ changedOld' = [changedOld EXCEPT ![d] =
                      IF @ = "none" THEN BoolStr(open[d]) ELSE @]
  /\ written' = [written EXCEPT ![d] =
                   [quiet |-> @.quiet /\ Quiet(d),
                    focus |-> IF v THEN activeElement ELSE @.focus]]
  /\ writesLeft' = writesLeft - 1
  /\ UNCHANGED <<hasUpdated, display, modalActive, originalTrigger, marginTop,
                 inv, anims, lockCount, activeElement, rafFocus, timerQueue>>

\* The application (or an attribute change) writes the `open` property.  Lit
\* ignores a write of the current value.
SetOpen(d, v) ==
  /\ WriteOpen(d, v)
  /\ UNCHANGED page

\* The record of a new onOpenChange invocation: `hasUpdated` is captured at
\* line 188; `dir` is the value of `open` that @watch found changed, i.e.
\* the direction of the write that caused the call; `quiet` is the history
\* of the writes up to the call and `kept` is set when the open branch
\* records the focus.
NewInvocation(d, pc) ==
  [pc |-> pc, hasUpdated |-> hasUpdated[d], fx |-> <<>>,
   dir |-> open[d], quiet |-> written[d].quiet, kept |-> TRUE]

\* Lit performs the pending update: @watch calls onOpenChange when the old
\* and the new value differ; the handler runs to its first await (line 195)
\* or returns at line 192.  Then hasUpdated becomes true.
Update(d) ==
  /\ d \in attached
  /\ changedOld[d] # "none"
  /\ inv' = [inv EXCEPT ![d] =
       IF changedOld[d] = BoolStr(open[d]) THEN @
       ELSE IF SkipsHandler(open[d], hasUpdated[d])
            THEN Append(@, NewInvocation(d, "done"))
            ELSE Append(@, NewInvocation(d, "whenDefined"))]
  /\ hasUpdated' = [hasUpdated EXCEPT ![d] = TRUE]
  /\ changedOld' = [changedOld EXCEPT ![d] = "none"]
  /\ UNCHANGED <<page, written, open, display, modalActive, originalTrigger, marginTop,
                 anims, lockCount, activeElement, rafFocus, timerQueue,
                 writesLeft>>

\* What the emit of a cancelable intent event records: the event and
\* whether a listener called preventDefault().
Intent(name, prevented) ==
  <<name>> \o (IF prevented THEN <<"prevented">> ELSE <<>>)

\* Lines 222-251: the open branch up to `await stopAnimation()`.  `kept`
\* records whether the focus is still where it was when `open` was written.
OpenProtocol(d, k, prevented) ==
  LET emits == EmitsOpenEvents(inv[d][k].hasUpdated)
      intent == IF emits THEN Intent("open", prevented) ELSE <<>>
  IN /\ (emits \/ ~prevented)
     /\ IF emits /\ AbortsOpen(prevented)
        THEN /\ inv' = SetInv(d, k, "done", intent)
             /\ UNCHANGED <<display, modalActive, originalTrigger, marginTop,
                            anims, lockCount>>
        ELSE /\ display' = [display EXCEPT ![d] = "flex"]
             /\ marginTop' = [marginTop EXCEPT ![d] =
                                IF topAppBar[d] THEN "0" ELSE @]
             /\ originalTrigger' =
                  [originalTrigger EXCEPT ![d] = activeElement]
             /\ modalActive' = [modalActive EXCEPT ![d] = TRUE]
             /\ lockCount' = LockScreen(lockCount)
             /\ anims' = [anims EXCEPT ![d] = StopAnimations(@)]
             /\ inv' = [StopBy(d, k, "stopOpen",
                          intent \o <<"display:flex">>
                            \o (IF topAppBar[d] THEN <<"marginTop:0">>
                                ELSE <<>>)
                            \o <<"trigger", "activate", "lock", "stop">>)
                        EXCEPT ![d][k].kept =
                                 (activeElement = written[d].focus)]

\* Lines 316-324: the close branch up to `await stopAnimation()`.
CloseProtocol(d, k, prevented) ==
  IF AbortsClose(prevented)
  THEN /\ inv' = SetInv(d, k, "done", Intent("close", prevented))
       /\ UNCHANGED <<display, modalActive, originalTrigger, marginTop, anims,
                      lockCount>>
  ELSE /\ modalActive' = [modalActive EXCEPT ![d] = FALSE]
       /\ anims' = [anims EXCEPT ![d] = StopAnimations(@)]
       /\ inv' = StopBy(d, k, "stopClose",
                        Intent("close", prevented) \o <<"deactivate", "stop">>)
       /\ UNCHANGED <<display, originalTrigger, marginTop, lockCount>>

\* Lines 201-251 / 315-324: the handler reads this.open after its awaits and
\* runs the branch of the value it finds; listeners of the intent event may
\* call preventDefault().  The handler assigns nothing to this.open.
Protocol(d, k) ==
  /\ \E prevented \in BOOLEAN :
       /\ IF open[d] THEN OpenProtocol(d, k, prevented)
                     ELSE CloseProtocol(d, k, prevented)
       /\ open' = [open EXCEPT ![d] = OpenAfterIntent(@, prevented)]
  /\ UNCHANGED <<page, written, hasUpdated, changedOld, activeElement,
                 rafFocus, timerQueue, writesLeft>>

\* `await this.definedController.whenDefined()` (line 195) resolves.
ResumeWhenDefined(d, k) ==
  /\ k \in Invs(d)
  /\ inv[d][k].pc = "whenDefined"
  /\ IF inv[d][k].hasUpdated
     THEN Protocol(d, k)
     ELSE /\ inv' = SetInv(d, k, "updateComplete", <<>>)
          /\ UNCHANGED <<page, written, open, hasUpdated, changedOld, display, modalActive,
                         originalTrigger, marginTop, anims, lockCount, activeElement,
                         rafFocus, timerQueue, writesLeft>>

\* `await this.updateComplete` (line 198) resolves: the first update is over.
ResumeUpdateComplete(d, k) ==
  /\ k \in Invs(d)
  /\ inv[d][k].pc = "updateComplete"
  /\ hasUpdated[d]
  /\ Protocol(d, k)

\* Lines 253-310: stopAnimation() resolved; the focus callback is requested
\* and the open animation set is started (the platform may be unable to run
\* it, in which case its completion signal fires at once).
AfterStopOpen(d, k) ==
  /\ k \in Invs(d)
  /\ inv[d][k].pc = "stopOpen"
  /\ rafFocus' = [rafFocus EXCEPT ![d] = TRUE]
  /\ \E runs \in BOOLEAN :
       anims' = [anims EXCEPT ![d] =
                   IF runs THEN @ \cup {[owner |-> k, kind |-> "open"]} ELSE @]
  /\ inv' = SetInv(d, k, "animOpen",
                   <<"raf", "animate:" \o OpenDuration(inv[d][k].hasUpdated)>>)
  /\ UNCHANGED <<page, written, open, hasUpdated, changedOld, display, modalActive,
                 originalTrigger, marginTop, lockCount, activeElement, timerQueue,
                 writesLeft>>

\* An animation set reaches its final keyframes.
AnimationFinish(d, r) ==
  /\ r \in anims[d]
  /\ anims' = [anims EXCEPT ![d] = @ \ {r}]
  /\ UNCHANGED <<page, written, open, hasUpdated, changedOld, display, modalActive,
                 originalTrigger, marginTop, inv, lockCount, activeElement, rafFocus,
                 timerQueue, writesLeft>>

\* The completion signal of invocation k's animation set has fired: the set
\* finished, was canceled, or never ran.
Settled(d, k) == \A r \in anims[d] : r.owner # k

\* Lines 312-314: after the open animations.
AfterOpenAnimation(d, k) ==
  /\ k \in Invs(d)
  /\ inv[d][k].pc = "animOpen"
  /\ Settled(d, k)
  /\ inv' = SetInv(d, k, "done",
                   IF EmitsOpenEvents(inv[d][k].hasUpdated)
                   THEN <<"opened">> ELSE <<>>)
  /\ UNCHANGED <<page, written, open, hasUpdated, changedOld, display, modalActive,
                 originalTrigger, marginTop, anims, lockCount, activeElement, rafFocus,
                 timerQueue, writesLeft>>

\* Lines 326-353: stopAnimation() resolved; the close animation set starts.
AfterStopClose(d, k) ==
  /\ k \in Invs(d)
  /\ inv[d][k].pc = "stopClose"
  /\ \E runs \in BOOLEAN :
       anims' = [anims EXCEPT ![d] =
                   IF runs THEN @ \cup {[owner |-> k, kind |-> "close"]} ELSE @]
  /\ inv' = SetInv(d, k, "animClose", <<"animate:" \o CloseDuration>>)
  /\ UNCHANGED <<page, written, open, hasUpdated, changedOld, display, modalActive,
                 originalTrigger, marginTop, lockCount, activeElement, rafFocus,
                 timerQueue, writesLeft>>

CloseFinalFx_EventFirst(trigger) ==
  <<"closed", "display:none", "unlock">>
    \o (IF CanFocus(trigger) THEN <<"timer">> ELSE <<>>)

\* Lines 355-364: what the close branch does after its animations, in order.
CloseFinalFx(trigger) ==
  <<"display:none", "unlock">>
    \o (IF CanFocus(trigger) THEN <<"timer">> ELSE <<>>)
    \o <<"closed">>

\* Lines 355-364: after the close animations.
AfterCloseAnimation(d, k) ==
  /\ k \in Invs(d)
  /\ inv[d][k].pc = "animClose"
  /\ Settled(d, k)
  /\ display' = [display EXCEPT ![d] = "none"]
  /\ lockCount' = UnlockScreen(lockCount)
  /\ timerQueue' = IF CanFocus(originalTrigger[d])
                   THEN Append(timerQueue, <<d, k, originalTrigger[d]>>)
                   ELSE timerQueue
  /\ inv' = SetInv(d, k, "done", CloseFinalFx(originalTrigger[d]))
  /\ UNCHANGED <<page, written, open, hasUpdated, changedOld, modalActive, originalTrigger, marginTop,
                 anims, activeElement, rafFocus, writesLeft>>

\* Line 361: the oldest setTimeout task runs trigger.focus().
TimerFire ==
  /\ timerQueue # <<>>
  /\ LET t == Head(timerQueue)
     IN /\ activeElement' = t[3]
        /\ inv' = [inv EXCEPT ![t[1]][t[2]].fx = @ \o <<"focus">>]
  /\ timerQueue' = Tail(timerQueue)
  /\ UNCHANGED <<page, written, open, hasUpdated, changedOld, display, modalActive,
                 originalTrigger, marginTop, anims, lockCount, rafFocus, writesLeft>>

\* Lines 254-263: the animation-frame callback focuses the [autofocus]
\* child or the panel.
RafFire(d) ==
  /\ rafFocus[d]
  /\ rafFocus' = [rafFocus EXCEPT ![d] = FALSE]
  /\ activeElement' = d
  /\ UNCHANGED <<page, written, open, hasUpdated, changedOld, display, modalActive,
                 originalTrigger, marginTop, inv, anims, lockCount, timerQueue,
                 writesLeft>>

\* The user, or a script of the page, moves the focus.
FocusMove(e) ==
  /\ e # activeElement
  /\ activeElement' = e
  /\ UNCHANGED <<page, written, open, hasUpdated, changedOld, display, modalActive,
                 originalTrigger, marginTop, inv, anims, lockCount, rafFocus, timerQueue,
                 writesLeft>>

\* A continuation of the handler.
HandlerStep(d, k) ==
  \/ ResumeWhenDefined(d, k)
  \/ ResumeUpdateComplete(d, k)
  \/ AfterStopOpen(d, k)
  \/ AfterOpenAnimation(d, k)
  \/ AfterStopClose(d, k)
  \/ AfterCloseAnimation(d, k)

Next ==
  \/ \E d \in Dialogs, v \in BOOLEAN : SetOpen(d, v)
  \/ \E d \in Dialogs : Update(d)
  \/ \E d \in Dialogs, k \in 1..(MaxWrites + 1) : HandlerStep(d, k)
  \/ \E d \in Dialogs, k \in 1..(MaxWrites + 1) :
       AnimationFinish(d, [owner |-> k, kind |-> "open"])
  \/ \E d \in Dialogs, k \in 1..(MaxWrites + 1) :
       AnimationFinish(d, [owner |-> k, kind |-> "close"])
  \/ TimerFire
  \/ \E d \in Dialogs : RafFire(d)

\* A page that toggles a dialog only when its previous transition is over,
\* and moves the focus at any time.
NextFocus ==
  \/ \E d \in Dialogs, v \in BOOLEAN : Quiet(d) /\ SetOpen(d, v)
  \/ \E d \in Dialogs : Update(d)
  \/ \E d \in Dialogs, k \in 1..(MaxWrites + 1) : HandlerStep(d, k)
  \/ \E d \in Dialogs, k \in 1..(MaxWrites + 1) :
       AnimationFinish(d, [owner |-> k, kind |-> "open"])
  \/ \E d \in Dialogs, k \in 1..(MaxWrites + 1) :
       AnimationFinish(d, [owner |-> k, kind |-> "close"])
  \/ TimerFire
  \/ \E d \in Dialogs : RafFire(d)
  \/ \E e \in PageElements : FocusMove(e)

Spec == Init /\ [][Next]_vars

SpecFocus == Init /\ [][NextFocus]_vars

SpecPair == InitPair /\ [][Next]_vars

(* ------------------------ vocabulary of the claims --------------------- *)

IsEvent(e) == e \in {"open", "opened", "close", "closed"}

\* The events invocation k of dialog d has dispatched, in order.
Events(d, k) == SelectSeq(Fx(d, k), IsEvent)

IsPrefix(a, b) == Len(a) <= Len(b) /\ SubSeq(b, 1, Len(a)) = a

\* Both effects were performed, a before b.
Precedes(s, a, b) == Has(s, a) /\ Has(s, b) /\ Pos(s, a) < Pos(s, b)

Done(d, k) == inv[d][k].pc = "done"

Prevented(d, k) == Has(Fx(d, k), "prevented")

\* Invocation k accepted its intent: it ran the open (close) branch past the
\* veto check.
OpenAccepted(d, k) == Has(Fx(d, k), "display:flex")
CloseAccepted(d, k) == Has(Fx(d, k), "deactivate")

\* This step is a continuation of invocation k of dialog d that emits the
\* intent event `name` and finds it prevented.
VetoStep(d, k, name) ==
  /\ k \in Invs(d)
  /\ inv[d][k].pc # "done"
  /\ IsPrefix(Fx(d, k) \o <<name, "prevented">>, inv'[d][k].fx)

\* The dialog first rendered with open = false: the handler returned at
\* line 192.
RenderedClosed(d) ==
  /\ Len(inv[d]) >= 1
  /\ ~inv[d][1].hasUpdated
  /\ Done(d, 1)
  /\ Fx(d, 1) = <<>>

\* The scenario of a dialog used sequentially: rendered closed, every write
\* made after the previous transition was over, no intent prevented.
Sequential(d) ==
  /\ RenderedClosed(d)
  /\ written[d].quiet
  /\ \A k \in Invs(d) : inv[d][k].quiet /\ ~Prevented(d, k)

\* In that scenario the writes alternate true, false, ...: invocation 2 is
\* the first open and invocation 3 its close.
Expected(k) ==
  IF k % 2 = 0 THEN <<"open", "opened">> ELSE <<"close", "closed">>

\* The first open/close cycle of the scenario, the focus not having moved
\* between the write of open = true and the handler's open branch.
FirstCycle(d) ==
  /\ Sequential(d)
  /\ Len(inv[d]) = 3
  /\ ~open[d]
  /\ inv[d][2].kept

(* ------------------------------- C1 ----------------------------------- *)

C1_Order(d) ==
  \A k \in Invs(d) \ {1} :
    /\ IsPrefix(Events(d, k), Expected(k))
    /\ Done(d, k) => Events(d, k) = Expected(k)
    /\ k < Len(inv[d]) => Done(d, k)

C1_FocusState(d) ==
  /\ \A i \in 1..Len(timerQueue) :
       timerQueue[i][1] = d => timerQueue[i][3] = written[d].focus
  /\ Done(d, 3) => Has(Fx(d, 3), "timer")

C1_FocusStep(d) ==
  (FirstCycle(d) /\ ~Has(Fx(d, 3), "focus") /\ Has(inv'[d][3].fx, "focus"))
    => activeElement' = written[d].focus

NoSideEffect(d) ==
  /\ display'[d] = display[d]
  /\ marginTop'[d] = marginTop[d]
  /\ modalActive'[d] = modalActive[d]
  /\ anims'[d] = anims[d]
  /\ originalTrigger'[d] = originalTrigger[d]
  /\ lockCount' = lockCount
  /\ rafFocus'[d] = rafFocus[d]
  /\ timerQueue' = timerQueue
  /\ activeElement' = activeElement

\* C2: a prevented 'open' event leaves display and the modal helper as they
\* were, starts no animation, records no focus trigger, takes no scroll
\* lock, and the handler returns: 'opened' is never dispatched for it.
C2_OpenVeto ==
  /\ [][\A d \in attached : \A k \in Invs(d) :
          VetoStep(d, k, "open") => NoSideEffect(d) /\ inv'[d][k].pc = "done"]_vars
  /\ [](\A d \in attached : \A k \in Invs(d) :
          Has(Fx(d, k), "open") /\ Prevented(d, k)
            => Done(d, k) /\ Fx(d, k) = <<"open", "prevented">>)

\* C2 witness: an open was vetoed on a dialog that is still not displayed.
C2_Witness ==
  \E d \in attached : \E k \in Invs(d) :
    /\ Fx(d, k) = <<"open", "prevented">>
    /\ display[d] = "unset"
    /\ ~modalActive[d]
    /\ lockCount = 0

(* ------------------------------- C3 ----------------------------------- *)

\* Invocation k ran a non-vetoed open after the first render, and the next
\* invocation ran a non-vetoed close that canceled k's open animations.
SupersededOpen(d, k) ==
  /\ k + 1 \in Invs(d)
  /\ inv[d][k].hasUpdated
  /\ OpenAccepted(d, k)
  /\ Has(Fx(d, k), "run_canceled")
  /\ CloseAccepted(d, k + 1)

\* C3: when a close supersedes an open whose animations have not settled,
\* 'opened' is never dispatched for that open, and once the close has run
\* to its end the dialog is Closed: display 'none', 'closed' dispatched,
\* scroll lock released.
C3_RapidToggle ==
  \A d \in attached : \A k \in Invs(d) :
    SupersededOpen(d, k) =>
      /\ ~Has(Fx(d, k), "opened")
      /\ (k + 1 = Len(inv[d]) /\ Quiet(d))
           => /\ display[d] = "none"
              /\ Has(Fx(d, k + 1), "closed")
              /\ ~ScrollLocked

(* ------------------------------- C4 ----------------------------------- *)

\* C4: an open animation set and a close animation set never run on the
\* same dialog at the same time.
C4_NoOverlap ==
  \A d \in attached :
    ~(\E r1, r2 \in anims[d] : r1.kind = "open" /\ r2.kind = "close")

(* ------------------------------- C5 ----------------------------------- *)

\* Dialog d completed a non-vetoed open and has completed no close.
HeldOpen(d) ==
  /\ \E k \in Invs(d) : OpenAccepted(d, k) /\ Done(d, k)
  /\ \A k \in Invs(d) : ~Has(Fx(d, k), "unlock")

\* C5: scrolling is locked in every state in which some dialog has completed
\* a non-vetoed open and has not completed a close.
C5_SharedLock ==
  (\E d \in attached : HeldOpen(d)) => ScrollLocked

(* ------------------------------- C6 ----------------------------------- *)

\* C6: a dialog whose open flag is true at its first render dispatches
\* neither 'open' nor 'opened', applies the open state (display 'flex',
\* modal helper activated, scroll lock taken) and runs its open animations
\* with duration 0.
C6_FirstRenderOpen ==
  /\ [](\A d \in attached : \A k \in Invs(d) :
          ~inv[d][k].hasUpdated =>
             /\ ~Has(Fx(d, k), "open") /\ ~Has(Fx(d, k), "opened")
             /\ ~Has(Fx(d, k), "animate:medium4")
             /\ OpenAccepted(d, k) =>
                  /\ Fx(d, k)[1] = "display:flex"
                  /\ Has(Fx(d, k), "activate") /\ Has(Fx(d, k), "lock")
                  /\ inv[d][k].pc \in {"animOpen", "done"}
                       => Has(Fx(d, k), "animate:0"))
  /\ [][\A d \in attached : \A k \in Invs(d) :
          (/\ inv[d][k].pc = "updateComplete"
           /\ open[d]
           /\ inv'[d][k].pc # "updateComplete")
            => /\ inv'[d][k].pc = "stopOpen"
               /\ display'[d] = "flex"
               /\ modalActive'[d]
               /\ lockCount' = lockCount + 1]_vars

\* C6 witness: the first-render open has run to its end without any event.
C6_Witness ==
  \E d \in attached : \E k \in Invs(d) :
    /\ ~inv[d][k].hasUpdated
    /\ Done(d, k)
    /\ Events(d, k) = <<>>
    /\ Has(Fx(d, k), "animate:0")
    /\ display[d] = "flex" /\ modalActive[d] /\ ScrollLocked

(* ------------------------------- C7 ----------------------------------- *)

\* The intent event of a transition precedes everything else it does.
IntentFirst(d, k) ==
  (Has(Fx(d, k), "open") \/ Has(Fx(d, k), "close"))
    => Fx(d, k)[1] \in {"open", "close"}

\* 'opened' follows the start of the open animations; 'closed' follows the
\* close animations, display 'none' and the scroll unlock.
CompletedAfterFinalization(d, k) ==
  /\ Has(Fx(d, k), "opened") => Precedes(Fx(d, k), "animate:medium4", "opened")
  /\ Has(Fx(d, k), "closed") =>
       /\ Precedes(Fx(d, k), "animate:short4", "closed")
       /\ Precedes(Fx(d, k), "display:none", "closed")
       /\ Precedes(Fx(d, k), "unlock", "closed")

\* This step dispatches the completed event `name` of invocation k.
CompletedStep(d, k, name) ==
  ~Has(Fx(d, k), name) /\ Has(inv'[d][k].fx, name)

\* C7 as claimed: the intent event comes first, and the completed event
\* only after the finalization, the return of the focus to the trigger
\* included.
C7_Claimed ==
  \A d \in attached : \A k \in Invs(d) :
    /\ IntentFirst(d, k)
    /\ CompletedAfterFinalization(d, k)
    /\ (Has(Fx(d, k), "closed") /\ Has(Fx(d, k), "timer"))
         => Precedes(Fx(d, k), "focus", "closed")

\* C7 amended: the intent event comes first; the completed event is
\* dispatched once the animation set has settled, after display 'none' and
\* the scroll unlock, and after the focus task was scheduled; trigger.focus()
\* itself runs in a later task, after 'closed'.
C7_DeliveryOrder ==
  /\ [](\A d \in attached : \A k \in Invs(d) :
          /\ IntentFirst(d, k)
          /\ CompletedAfterFinalization(d, k)
          /\ (Has(Fx(d, k), "closed") /\ Has(Fx(d, k), "timer"))
               => Precedes(Fx(d, k), "timer", "closed")
          /\ Has(Fx(d, k), "focus") => Precedes(Fx(d, k), "closed", "focus"))
  /\ [][\A d \in attached : \A k \in Invs(d) :
          (CompletedStep(d, k, "opened") \/ CompletedStep(d, k, "closed"))
            => Settled(d, k)]_vars

\* C7 witness: 'closed' was dispatched and the focus went back afterwards.
C7_Witness ==
  \E d \in attached : \E k \in Invs(d) :
    /\ Precedes(Fx(d, k), "closed", "focus")
    /\ Precedes(Fx(d, k), "close", "display:none")

(* ------------------------------- C8 ----------------------------------- *)

\* C8: the handler never writes the open flag: after a vetoed open it is
\* still true, after a vetoed close still false, and no continuation of the
\* handler changes it.
C8_FlagNotReverted ==
  [][\A d \in attached :
       /\ \A k \in Invs(d) :
            /\ VetoStep(d, k, "open") => open[d] /\ open'[d]
            /\ VetoStep(d, k, "close") => ~open[d] /\ ~open'[d]
       /\ (inv'[d] # inv[d] /\ Len(inv'[d]) = Len(inv[d]))
            => open'[d] = open[d]]_vars

\* C8 witness: an open and a close were both vetoed; the flag is false, as
\* last written.
C8_Witness ==
  \E d \in attached : \E j, k \in Invs(d) :
    /\ Fx(d, j) = <<"open", "prevented">>
    /\ Fx(d, k) = <<"close", "prevented">>
    /\ j < k
    /\ ~open[d]
    /\ Quiet(d)

(* ------------------------------- C9 ----------------------------------- *)

\* C9: a prevented 'close' event leaves the dialog as it was (display,
\* modal helper, scroll lock), starts no animation, schedules no focus
\* return, and the handler returns: 'closed' is not dispatched for it.
C9_CloseVeto ==
  /\ [][\A d \in attached : \A k \in Invs(d) :
          VetoStep(d, k, "close") => NoSideEffect(d) /\ inv'[d][k].pc = "done"]_vars
  /\ [](\A d \in attached : \A k \in Invs(d) :
          Has(Fx(d, k), "close") /\ Prevented(d, k)
            => Done(d, k) /\ Fx(d, k) = <<"close", "prevented">>)

\* C9 witness: the close of an open dialog was vetoed and the dialog is
\* still displayed, modal and holding the scroll lock.
C9_Witness ==
  \E d \in attached : \E k \in Invs(d) :
    /\ Fx(d, k) = <<"close", "prevented">>
    /\ Quiet(d)
    /\ display[d] = "flex"
    /\ modalActive[d]
    /\ ScrollLocked

(* ------------------------------- C10 ---------------------------------- *)

\* The continuations of a transition that has passed its intent event: the
\* promises of stopAnimation() and of the animation sets resolve, and
\* animation sets reach their end.
Progress ==
  \E d \in Dialogs, k \in 1..(MaxWrites + 1) :
    \/ AfterStopOpen(d, k)
    \/ AfterOpenAnimation(d, k)
    \/ AfterStopClose(d, k)
    \/ AfterCloseAnimation(d, k)
    \/ AnimationFinish(d, [owner |-> k, kind |-> "open"])
    \/ AnimationFinish(d, [owner |-> k, kind |-> "close"])

\* One attached dialog without a top app bar in its header slot.
InitPlain == Init /\ \A d \in Dialogs : ~topAppBar[d]

FairSpec == InitPlain /\ [][Next]_vars /\ WF_vars(Progress)

\* A later invocation of dialog d ran a non-vetoed close.
SupersededByClose(d, k) ==
  \E j \in Invs(d) : j > k /\ CloseAccepted(d, j)

\* Invocation k of dialog d ran a non-vetoed open after the first render.
OpenStarted(d, k) ==
  IF k \in Invs(d) THEN inv[d][k].hasUpdated /\ OpenAccepted(d, k) ELSE FALSE

OpenEnded(d, k) ==
  IF k \in Invs(d)
  THEN Has(Fx(d, k), "opened") \/ SupersededByClose(d, k)
  ELSE FALSE

\* Invocation k of dialog d ran a non-vetoed close.
CloseStarted(d, k) ==
  IF k \in Invs(d) THEN CloseAccepted(d, k) ELSE FALSE

CloseEnded(d, k) ==
  IF k \in Invs(d)
  THEN Has(Fx(d, k), "display:none") /\ Has(Fx(d, k), "closed")
  ELSE FALSE

\* Every transition that has started has ended.
NoneInFlight ==
  \A d \in Dialogs : \A k \in 1..(MaxWrites + 1) :
    /\ OpenStarted(d, k) => OpenEnded(d, k)
    /\ CloseStarted(d, k) => CloseEnded(d, k)

\* C10: under fair scheduling every non-vetoed open after the first render
\* dispatches 'opened' or is superseded by a close, and every non-vetoed
\* close reaches display 'none' and dispatches 'closed': again and again
\* no started transition is left unfinished.
C10_NeverStuck == []<>NoneInFlight

\* C10 witness: a close whose animations were canceled, and an open whose
\* animations were canceled, both ran to their completed event.
C10_Witness ==
  \E d \in attached : \E j, k \in Invs(d) :
    /\ Has(Fx(d, j), "run_canceled") /\ Has(Fx(d, j), "closed")
    /\ Has(Fx(d, k), "run_canceled") /\ Has(Fx(d, k), "opened")
    /\ ~SupersededByClose(d, k)

(* ------------------------------- C11 ---------------------------------- *)

IsIntent(e) == e \in {"open", "close"}

\* The intent events invocation k of dialog d has dispatched.
Intents(d, k) == SelectSeq(Fx(d, k), IsIntent)

\* C11: every handler call made after the first render dispatches exactly
\* one intent event, and it is the one of the write that caused the call:
\* 'open' for a flip to true, 'close' for a flip to false.
C11_OwnDirection ==
  \A d \in attached : \A k \in Invs(d) :
    (inv[d][k].hasUpdated /\ inv[d][k].pc # "whenDefined")
      => Intents(d, k) = <<IF inv[d][k].dir THEN "open" ELSE "close">>

(* ------------------------------- C20 ---------------------------------- *)

\* Invocation k ran a non-vetoed close, and the next invocation ran a
\* non-vetoed open that canceled k's close animations.
SupersededClose(d, k) ==
  /\ k + 1 \in Invs(d)
  /\ CloseAccepted(d, k)
  /\ Has(Fx(d, k), "run_canceled")
  /\ inv[d][k + 1].hasUpdated
  /\ OpenAccepted(d, k + 1)

\* C20: when an open supersedes a close whose animations have not settled,
\* the close does not finalize: once every handler call has returned the
\* dialog is displayed, holds the scroll lock and has open = true, and no
\* 'closed' was dispatched after the cancellation.
C20_ReopenDuringClose ==
  \A d \in attached : \A k \in Invs(d) :
    (SupersededClose(d, k) /\ k + 1 = Len(inv[d]) /\ Quiet(d) /\ open[d])
      => /\ display[d] = "flex"
         /\ ScrollLocked
         /\ ~Precedes(Fx(d, k), "run_canceled", "closed")

(* ========================= bottom app bar ============================= *)

\* event.defaultPrevented after the dispatch: preventDefault() acts on a
\* cancelable event only.
DefaultPrevented(cancelable, prevents) == cancelable /\ prevents

\* Lines 98, 106: `emit(this, 'hide')` and `emit(this, 'show')` pass no
\* options, so the events are dispatched with the default (not cancelable).
BarIntentCancelable == FALSE

HidesOnSignal_Always(isScrollingUp, hide) == ~isScrollingUp

\* Line 97: the condition of the scrolling-down branch.
HidesOnSignal(isScrollingUp, hide) == ~isScrollingUp /\ ~hide

ShowsOnSignal_Always(isScrollingUp, hide) == isScrollingUp

ShowsOnSignal_AnyDirection(isScrollingUp, hide) == hide

\* Line 105: the condition of the scrolling-up branch.
ShowsOnSignal(isScrollingUp, hide) == isScrollingUp /\ hide

TargetIsBar_Any(target) == TRUE

\* Line 81: `event.target === this`.
TargetIsBar(target) == target = "bar"

\* Line 82: the completed event of the transition that ended.
CompletedEvent(hide) == IF hide THEN "hidden" ELSE "shown"

\* A page without dialogs: the bottom app bar after its first update.
BarInit ==
  /\ InitDialogs
  /\ attached = {}
  /\ \A d \in Dialogs : ~topAppBar[d]
  /\ InitWidgets

\* The bar records what it did on an input.
BarDoes(input, cancel, hide, out) ==
  bar' = [hide |-> hide,
          log |-> Append(bar.log, [input |-> input, cancel |-> cancel,
                                   was |-> bar.hide, now |-> hide,
                                   out |-> out])]

\* Lines 95-111: the scroll behaviour reports a scroll direction; the
\* listeners of 'hide' and of 'show' call preventDefault() or not.
runScrollThreshold(isScrollingUp, cancelHide, cancelShow) ==
  LET down == HidesOnSignal(isScrollingUp, bar.hide)
      requestHide == DefaultPrevented(BarIntentCancelable, cancelHide)
      hide1 == IF down /\ ~requestHide THEN TRUE ELSE bar.hide
      out1 == IF down THEN <<"hide">> ELSE <<>>
      up == ShowsOnSignal(isScrollingUp, hide1)
      requestShow == DefaultPrevented(BarIntentCancelable, cancelShow)
      hide2 == IF up /\ ~requestShow THEN FALSE ELSE hide1
      out2 == IF up THEN out1 \o <<"show">> ELSE out1
  IN /\ Len(bar.log) < MaxSignals
     /\ BarDoes(IF isScrollingUp THEN "up" ELSE "down",
                [hide |-> cancelHide, show |-> cancelShow], hide2, out2)
     /\ UNCHANGED <<dialogVars, controls, checkbox, select, jq, ui>>

\* Lines 80-84: a transitionend event reaches the listener of the bar; its
\* target is the bar or a descendant.
onTransitionEnd(target) ==
  /\ Len(bar.log) < MaxSignals
  /\ BarDoes("transitionend:" \o target, [hide |-> FALSE, show |-> FALSE],
             bar.hide,
             IF TargetIsBar(target) THEN <<CompletedEvent(bar.hide)>>
             ELSE <<>>)
  /\ UNCHANGED <<dialogVars, controls, checkbox, select, jq, ui>>

\* Lines 44-49: the application writes the `hide` property.
SetHide(v) ==
  /\ Len(bar.log) < MaxSignals
  /\ v # bar.hide
  /\ BarDoes("set", [hide |-> FALSE, show |-> FALSE], v, <<>>)
  /\ UNCHANGED <<dialogVars, controls, checkbox, select, jq, ui>>

BarNext ==
  \/ \E isScrollingUp, cancelHide, cancelShow \in BOOLEAN :
       runScrollThreshold(isScrollingUp, cancelHide, cancelShow)
  \/ \E target \in {"bar", "child"} : onTransitionEnd(target)
  \/ \E v \in BOOLEAN : SetHide(v)

BarSpec == BarInit /\ [][BarNext]_vars

\* The inputs the bar has handled.
BarLog == {bar.log[i] : i \in 1..Len(bar.log)}

(* ------------------------------- C12 ---------------------------------- *)

\* C12: a scrolling-down signal received while the bar is shown dispatches
\* 'hide' and, when no listener cancels it, sets hide = true; received
\* while the bar is hidden it dispatches nothing and leaves hide unchanged.
C12_ScrollDown ==
  \A e \in BarLog :
    e.input = "down" =>
      IF e.was THEN e.out = <<>> /\ e.now
      ELSE e.out = <<"hide">> /\ (~e.cancel.hide => e.now)

\* C12 witness: the bar was hidden by a scrolling-down signal and received
\* the signal again.
C12_Witness ==
  \E i \in 1..Len(bar.log) :
    /\ i > 1
    /\ bar.log[i - 1].input = "down" /\ bar.log[i - 1].out = <<"hide">>
    /\ bar.log[i].input = "down" /\ bar.log[i].out = <<>>
    /\ bar.hide

(* ------------------------------- C13 ---------------------------------- *)

\* C13: when a listener calls preventDefault() on 'hide' the bar stays shown,
\* and when a listener calls preventDefault() on 'show' it stays hidden.
C13_IntentVeto ==
  \A e \in BarLog :
    /\ (Has(e.out, "hide") /\ e.cancel.hide) => ~e.now
    /\ (Has(e.out, "show") /\ e.cancel.show) => e.now

(* ------------------------------- C14 ---------------------------------- *)

\* C14: a scrolling-up signal received while the bar is hidden dispatches
\* 'show' and, unless vetoed, sets hide = false; received while the bar is
\* shown it dispatches nothing and leaves hide unchanged.  After a signal
\* that no listener vetoed, hide is true iff the signal was scrolling down.
C14_ScrollUp ==
  \A e \in BarLog :
    /\ e.input = "up" =>
         IF e.was THEN e.out = <<"show">> /\ (~e.cancel.show => ~e.now)
         ELSE e.out = <<>> /\ ~e.now
    /\ (e.input \in {"up", "down"} /\ ~e.cancel.hide /\ ~e.cancel.show)
         => (e.now <=> e.input = "down")

\* C14 witness: the bar was hidden by a scroll down, shown again by a scroll
\* up, and received the scrolling-up signal once more.
C14_Witness ==
  /\ Len(bar.log) = 3
  /\ bar.log[1].input = "down" /\ bar.log[1].now
  /\ bar.log[2].input = "up" /\ bar.log[2].out = <<"show">>
  /\ bar.log[3].input = "up" /\ bar.log[3].out = <<>>
  /\ ~bar.hide

(* ------------------------------- C15 ---------------------------------- *)

\* C15: 'hidden' and 'shown' are dispatched only for a transitionend event
\* whose target is the bar: 'hidden' if hide is true at that moment, 'shown'
\* otherwise; a transitionend event of a descendant dispatches nothing.
C15_Completed ==
  \A e \in BarLog :
    /\ (Has(e.out, "hidden") \/ Has(e.out, "shown"))
         => e.input = "transitionend:bar"
    /\ e.input = "transitionend:bar"
         => e.out = <<IF e.was THEN "hidden" ELSE "shown">>
    /\ e.input = "transitionend:child" => e.out = <<>>

\* C15 witness: the bar was hidden, a descendant's transition ended, then
\* the bar's own, which dispatched 'hidden'.
C15_Witness ==
  /\ Len(bar.log) = 3
  /\ bar.log[1].now
  /\ bar.log[2].input = "transitionend:child" /\ bar.log[2].out = <<>>
  /\ bar.log[3].input = "transitionend:bar" /\ bar.log[3].out = <<"hidden">>

(* ============================= checkbox =============================== *)

\* A page with one form control, after its first update.
FormInit ==
  /\ InitDialogs
  /\ attached = {}
  /\ \A d \in Dialogs : ~topAppBar[d]
  /\ bar = BarNew
  /\ controls \in {{"checkbox"}, {"select"}}
  /\ checkbox = CheckboxNew
  /\ select = SelectNew
  /\ jq = JqIdle
  /\ ui = UiNew

\* What an operation of a form control did.
Did(op, was, fx, native, ret) ==
  [op |-> op, fx |-> fx, native |-> native, ret |-> ret, was |-> was]

ValidStr(valid) == IF valid THEN "valid" ELSE "invalid"

\* Lines 260-270: the constraint validation of the inner
\* <input type="checkbox">: a custom error, or required and not checked.
CheckboxValid(input) ==
  ~input.custom /\ ~(input.required /\ ~input.checked)

\* The property values before the first write of the pending update
\* (Lit's changedProperties).
Touched(c) ==
  IF c.old.set THEN c.old
  ELSE [set |-> TRUE, checked |-> c.checked,
        indeterminate |-> c.indeterminate, required |-> c.required]

\* Lines 69-100: the application writes a property of the checkbox.
CheckboxWrite(prop, v) ==
  /\ "checkbox" \in controls
  /\ v # checkbox[prop]
  /\ checkbox' = [checkbox EXCEPT ![prop] = v, !.old = Touched(checkbox),
                                  !.last = Did("write", "none", <<>>, "none", "none")]
  /\ UNCHANGED <<dialogVars, bar, controls, select, jq, ui>>

OnChangeChecked_Toggle(inputChecked, hostChecked) == ~hostChecked

\* Line 315: `this.checked = this.inputRef.value!.checked`.
OnChangeChecked(inputChecked, hostChecked) == inputChecked

\* Lines 315-317: what onChange does, in order.
OnChangeFx == <<"checked", "indeterminate", "emit:change">>

\* Lines 314-318: the user toggles the inner input, whose native change
\* event calls onChange.
onChange ==
  /\ "checkbox" \in controls
  /\ LET input1 == [checkbox.input EXCEPT !.checked = ~@]
     IN checkbox' =
          [checkbox EXCEPT
             !.input = input1,
             !.checked = OnChangeChecked(input1.checked, checkbox.checked),
             !.indeterminate = FALSE,
             !.old = Touched(checkbox),
             !.last = Did("change", "none", OnChangeFx, "none", "none")]
  /\ UNCHANGED <<dialogVars, bar, controls, select, jq, ui>>

\* Line 189: onDisabledChange after `await this.updateComplete`.
onDisabledChange(valid) == ~valid

onCheckedChange_Validate(resets, valid) == ~valid

\* Lines 197-203: onCheckedChange after `await this.updateComplete`; the
\* value of `invalid` it assigns.
onCheckedChange(resets, valid) == IF resets THEN FALSE ELSE ~valid

\* Lines 184-204, 258-270: Lit performs the pending update: the render
\* brings the inner input in step with the properties, and the handlers of
\* the watched properties that changed run once the update is complete (in
\* either order when both run).
CheckboxUpdate ==
  /\ "checkbox" \in controls
  /\ checkbox.old.set
  /\ LET c == checkbox
         input1 == [c.input EXCEPT !.checked = c.checked,
                                   !.required = c.required]
         valid == CheckboxValid(input1)
         byDisabled == \/ c.old.indeterminate # c.indeterminate
                       \/ c.old.required # c.required
         byChecked == c.old.checked # c.checked
         AfterDisabled(i) == IF byDisabled THEN onDisabledChange(valid) ELSE i
         AfterChecked(i) ==
           IF byChecked THEN onCheckedChange(c.resets, valid) ELSE i
     IN \E checkedLast \in BOOLEAN :
          checkbox' =
            [c EXCEPT
               !.input = input1,
               !.invalid = IF checkedLast
                           THEN AfterChecked(AfterDisabled(c.invalid))
                           ELSE AfterDisabled(AfterChecked(c.invalid)),
               !.resets = IF byChecked THEN FALSE ELSE c.resets,
               !.old = NoUpdate,
               !.last = Did("update", BoolStr(c.invalid), <<>>,
                            ValidStr(valid), "none")]
  /\ UNCHANGED <<dialogVars, bar, controls, select, jq, ui>>

CheckValidityEmits_Always(valid) == TRUE

\* Lines 212-218, 318-324: 'invalid' is emitted when the check failed.
CheckValidityEmits(valid) == ~valid

\* Lines 209-221: checkValidity().
CheckboxCheckValidity ==
  /\ "checkbox" \in controls
  /\ LET valid == CheckboxValid(checkbox.input)
     IN checkbox' =
          [checkbox EXCEPT !.last =
             Did("checkValidity", BoolStr(checkbox.invalid),
                 IF CheckValidityEmits(valid) THEN <<"emit:invalid">>
                 ELSE <<>>,
                 ValidStr(valid), BoolStr(valid))]
  /\ UNCHANGED <<dialogVars, bar, controls, select, jq, ui>>

\* Lines 228-246: reportValidity(); a listener of 'invalid' may call
\* preventDefault().
CheckboxReportValidity(cancel) ==
  /\ "checkbox" \in controls
  /\ LET valid == CheckboxValid(checkbox.input)
         invalid == ~valid
         requestInvalid == DefaultPrevented(TRUE, cancel)
     IN checkbox' =
          [checkbox EXCEPT
             !.invalid = invalid,
             !.last =
               Did("reportValidity", BoolStr(checkbox.invalid),
                   <<"invalid">>
                     \o (IF invalid THEN <<"emit:invalid">> ELSE <<>>)
                     \o (IF invalid /\ requestInvalid
                         THEN <<"blur", "focus">> ELSE <<>>),
                   ValidStr(valid), BoolStr(~invalid))]
  /\ UNCHANGED <<dialogVars, bar, controls, select, jq, ui>>

\* Lines 253-256: setCustomValidity(message); `custom` is whether the
\* message is not empty.
CheckboxSetCustomValidity(custom) ==
  /\ "checkbox" \in controls
  /\ LET input1 == [checkbox.input EXCEPT !.custom = custom]
     IN checkbox' =
          [checkbox EXCEPT
             !.input = input1,
             !.invalid = ~CheckboxValid(input1),
             !.last = Did("setCustomValidity", BoolStr(checkbox.invalid),
                          <<"invalid">>, ValidStr(CheckboxValid(input1)),
                          "none")]
  /\ UNCHANGED <<dialogVars, bar, controls, select, jq, ui>>

\* Lines 148-152, 196-200: the form of the checkbox is reset: the form
\* controller registers the control in formResets and sets `checked` to the
\* default.
CheckboxReset(defaultChecked) ==
  /\ "checkbox" \in controls
  /\ checkbox' =
       [checkbox EXCEPT
          !.checked = defaultChecked,
          !.resets = TRUE,
          !.old = IF defaultChecked # checkbox.checked
                  THEN Touched(checkbox) ELSE @,
          !.last = Did("reset", "none", <<>>, "none", "none")]
  /\ UNCHANGED <<dialogVars, bar, controls, select, jq, ui>>

CheckboxNext ==
  \/ \E prop \in {"checked", "indeterminate", "required"}, v \in BOOLEAN :
       CheckboxWrite(prop, v)
  \/ onChange
  \/ CheckboxUpdate
  \/ CheckboxCheckValidity
  \/ \E cancel \in BOOLEAN : CheckboxReportValidity(cancel)
  \/ \E custom \in BOOLEAN : CheckboxSetCustomValidity(custom)
  \/ \E defaultChecked \in BOOLEAN : CheckboxReset(defaultChecked)

(* ============================== select ================================ *)

\* The values of the <mdui-menu-item> elements.
Options == {"a", "b"}

RECURSIVE SeqsUpTo(_, _)
\* The sequences over S of length at most n.
SeqsUpTo(S, n) ==
  IF n = 0 THEN {<<>>}
  ELSE LET shorter == SeqsUpTo(S, n - 1)
       IN shorter \cup {Append(q, x) : q \in shorter, x \in S}

\* Lines 101-102: `value: string | string[]`.
Strings == {Str(q) : q \in SeqsUpTo(Options, 1)}
Arrays == {Arr(q) : q \in SeqsUpTo(Options, MaxItems)}

\* Line 369: `this.multiple ? !!this.value.length : !!this.value`.
HasSelection(value) == Len(value.items) > 0

\* Lines 372-397: the constraint validation of the hidden <select multiple>
\* or <input type="radio">: a custom error, or required and nothing
\* selected.
SelectValid(input) ==
  ~input.custom /\ (~input.required \/ input.hasSelection)

\* Lines 368-397: the render brings the hidden input in step with the
\* properties; a change of `multiple` replaces the element.
SelectRender(sel) ==
  [multiple |-> sel.multiple,
   hasSelection |-> HasSelection(sel.value),
   required |-> sel.required,
   custom |-> IF sel.multiple = sel.input.multiple THEN sel.input.custom
              ELSE FALSE]

\* Lines 86-102, 229-234: the application writes a property of the select.
SelectWrite(prop, v) ==
  /\ "select" \in controls
  /\ v # select[prop]
  /\ select' = [select EXCEPT ![prop] = v, !.dirty = TRUE,
                              !.last = Did("write", "none", <<>>, "none", "none")]
  /\ UNCHANGED <<dialogVars, bar, controls, checkbox, jq, ui>>

\* Lines 368-397: Lit performs the pending update.
SelectUpdate ==
  /\ "select" \in controls
  /\ select.dirty
  /\ select' = [select EXCEPT !.input = SelectRender(select),
                              !.dirty = FALSE,
                              !.last = Did("update", "none", <<>>, "none", "none")]
  /\ UNCHANGED <<dialogVars, bar, controls, checkbox, jq, ui>>

\* Lines 315-327: checkValidity().
SelectCheckValidity ==
  /\ "select" \in controls
  /\ LET valid == SelectValid(select.input)
     IN select' =
          [select EXCEPT !.last =
             Did("checkValidity", BoolStr(select.invalid),
                 IF CheckValidityEmits(valid) THEN <<"emit:invalid">>
                 ELSE <<>>,
                 ValidStr(valid), BoolStr(valid))]
  /\ UNCHANGED <<dialogVars, bar, controls, checkbox, jq, ui>>

\* Lines 334-348: reportValidity().
SelectReportValidity ==
  /\ "select" \in controls
  /\ LET valid == SelectValid(select.input)
         invalid == ~valid
     IN select' =
          [select EXCEPT
             !.invalid = invalid,
             !.last =
               Did("reportValidity", BoolStr(select.invalid),
                   <<"invalid">>
                     \o (IF invalid THEN <<"emit:invalid", "focus">>
                         ELSE <<>>),
                   ValidStr(valid), BoolStr(~invalid))]
  /\ UNCHANGED <<dialogVars, bar, controls, checkbox, jq, ui>>

\* Lines 355-358: setCustomValidity(message).
SelectSetCustomValidity(custom) ==
  /\ "select" \in controls
  /\ LET input1 == [select.input EXCEPT !.custom = custom]
     IN select' =
          [select EXCEPT
             !.input = input1,
             !.invalid = ~SelectValid(input1),
             !.last = Did("setCustomValidity", BoolStr(select.invalid),
                          <<"invalid">>, ValidStr(SelectValid(input1)),
                          "none")]
  /\ UNCHANGED <<dialogVars, bar, controls, checkbox, jq, ui>>

\* Line 560: the value onClear assigns.
Cleared(multiple) == IF multiple THEN Arr(<<>>) ELSE Str(<<>>)

\* Lines 439, 559-561: the text field dispatches 'clear'; its listener
\* onClear runs at the target, before the event reaches the listeners of the
\* select, which may call preventDefault().
onClear(cancel) ==
  /\ "select" \in controls
  /\ select' =
       [select EXCEPT
          !.value = Cleared(select.multiple),
          !.dirty = @ \/ select.value # Cleared(select.multiple),
          !.last = Did("clear",
                       IF HasSelection(select.value) THEN "selected"
                       ELSE "empty",
                       <<"value">>
                         \o (IF cancel THEN <<"preventDefault">> ELSE <<>>),
                       "none", "none")]
  /\ UNCHANGED <<dialogVars, bar, controls, checkbox, jq, ui>>

\* Lines 530-532: the value onValueChange takes from the menu (a menu
\* without selection reports undefined, which becomes '').
MenuValue(multiple, items) == IF multiple THEN Arr(items) ELSE Str(items)

\* Lines 528-544: the menu dispatches 'change': the value is taken from the
\* menu, the update completes, and the validity is checked unless the change
\* comes from a form reset.
onValueChange(items) ==
  /\ "select" \in controls
  /\ LET sel == [select EXCEPT !.value = MenuValue(select.multiple, items)]
         input1 == SelectRender(sel)
         valid == SelectValid(input1)
     IN select' =
          [sel EXCEPT
             !.input = input1,
             !.dirty = FALSE,
             !.invalid = IF select.resets THEN FALSE ELSE ~valid,
             !.resets = FALSE,
             !.last = Did("valueChange", BoolStr(select.invalid),
                          <<"value", "invalid">>, ValidStr(valid), "none")]
  /\ UNCHANGED <<dialogVars, bar, controls, checkbox, jq, ui>>

\* Lines 251, 298, 536-540: the form of the select is reset: the form
\* controller registers the control in formResets and sets `value` to the
\* default.
SelectReset ==
  /\ "select" \in controls
  /\ select' =
       [select EXCEPT
          !.value = Cleared(select.multiple),
          !.resets = TRUE,
          !.dirty = @ \/ select.value # Cleared(select.multiple),
          !.last = Did("reset", "none", <<>>, "none", "none")]
  /\ UNCHANGED <<dialogVars, bar, controls, checkbox, jq, ui>>

SelectNext ==
  \/ \E v \in Strings \cup Arrays : SelectWrite("value", v)
  \/ \E prop \in {"required", "multiple"}, v \in BOOLEAN :
       SelectWrite(prop, v)
  \/ SelectUpdate
  \/ SelectCheckValidity
  \/ SelectReportValidity
  \/ \E custom \in BOOLEAN : SelectSetCustomValidity(custom)
  \/ \E cancel \in BOOLEAN : onClear(cancel)
  \/ \E items \in SeqsUpTo(Options, MaxItems) :
       (select.multiple \/ Len(items) <= 1) /\ onValueChange(items)
  \/ SelectReset

FormNext == CheckboxNext \/ SelectNext

FormSpec == FormInit /\ [][FormNext]_vars

(* ------------------------------- C16 ---------------------------------- *)

\* C16: after a native change event of the inner input the host's `checked`
\* equals the inner input's, `indeterminate` is false, and one 'change'
\* event was dispatched on the host, after both property writes.
C16_Change ==
  ("checkbox" \in controls /\ checkbox.last.op = "change") =>
    /\ checkbox.checked = checkbox.input.checked
    /\ ~checkbox.indeterminate
    /\ checkbox.last.fx = <<"checked", "indeterminate", "emit:change">>

\* C16 witness: the inner input of an indeterminate checkbox was toggled
\* while an update was pending.
C16_Witness ==
  /\ "checkbox" \in controls
  /\ checkbox.last.op = "change"
  /\ checkbox.old.set
  /\ checkbox.old.indeterminate
  /\ checkbox.old.checked = checkbox.checked
  /\ checkbox.checked = checkbox.input.checked

(* ------------------------------- C17 ---------------------------------- *)

\* What checkValidity() must have done on a control whose native input is
\* `valid`: return the native result, emit 'invalid' exactly when it is
\* false, leave the displayed invalid state as it was.
Checked(c, valid) ==
  /\ c.last.native = ValidStr(valid)
  /\ c.last.ret = BoolStr(valid)
  /\ c.last.fx = IF valid THEN <<>> ELSE <<"emit:invalid">>
  /\ BoolStr(c.invalid) = c.last.was

\* What reportValidity() must have done: display the negation of the native
\* result, emit 'invalid' once exactly when invalid, return true iff valid.
Reported(c, valid) ==
  /\ c.last.native = ValidStr(valid)
  /\ c.invalid = ~valid
  /\ Has(c.last.fx, "emit:invalid") <=> ~valid
  /\ Len(SelectSeq(c.last.fx, LAMBDA e : e = "emit:invalid")) <= 1
  /\ c.last.ret = BoolStr(valid)

\* C17: checkValidity() and reportValidity() of the checkbox and of the
\* select behave as described above.
C17_Validity ==
  /\ "checkbox" \in controls =>
       /\ checkbox.last.op = "checkValidity"
            => Checked(checkbox, CheckboxValid(checkbox.input))
       /\ checkbox.last.op = "reportValidity"
            => Reported(checkbox, CheckboxValid(checkbox.input))
  /\ "select" \in controls =>
       /\ select.last.op = "checkValidity"
            => Checked(select, SelectValid(select.input))
       /\ select.last.op = "reportValidity"
            => Reported(select, SelectValid(select.input))

\* C17 witness: checkValidity() failed on a select that displays no error.
C17_Witness ==
  /\ "select" \in controls
  /\ select.last.op = "checkValidity"
  /\ select.last.ret = "false"
  /\ select.last.fx = <<"emit:invalid">>
  /\ ~select.invalid

(* ------------------------------- C18 ---------------------------------- *)

\* C18: a 'clear' event on which a listener called preventDefault() leaves
\* the value of the select as it was; otherwise the value becomes [] if
\* multiple is true and '' if not.
C18_ClearVeto ==
  ("select" \in controls /\ select.last.op = "clear") =>
    IF Has(select.last.fx, "preventDefault")
    THEN HasSelection(select.value) <=> select.last.was = "selected"
    ELSE select.value = Cleared(select.multiple)


(***************************************************************************)
(* $.fn.map (select/index.ts lines 585-621).                               *)
(*                                                                         *)
(* A collection is a sequence of elements.  What a callback returns is a   *)
(* record [kind, items]: a single datum ("value", one item), an array      *)
(* ("array", its elements), null or undefined (no items).  Indices are     *)
(* written as the strings "0", "1", ... so that they can appear in the same *)
(* collections as elements.                                                *)
(***************************************************************************)

\* The elements collections are made of.
Elements == {"e1", "e2"}

\* The collections $.fn.map is applied to.
Collections == SeqsUpTo(Elements, MaxLen)

\* The callbacks passed to $.fn.map, by what they return: their second
\* argument, their first argument, `this`, the array of both arguments, null
\* for an even first argument and the second argument otherwise, undefined,
\* an empty array.
Callbacks ==
  {"element", "index", "this", "pair", "nullOnEven", "undefined", "empty"}

\* The index i as a callback sees it.
Ix(i) == <<"0", "1", "2", "3", "4", "5">>[i + 1]

EvenIndices == {Ix(0), Ix(2), Ix(4)}

Value(v) == [kind |-> "value", items |-> <<v>>]
Array(items) == [kind |-> "array", items |-> items]
Null == [kind |-> "null", items |-> <<>>]
UndefinedValue == [kind |-> "undefined", items |-> <<>>]

\* What callback cb returns when called with the given `this` and arguments.
Apply(cb, call) ==
  CASE cb = "element" -> Value(call.second)
    [] cb = "index" -> Value(call.first)
    [] cb = "this" -> Value(call.this)
    [] cb = "pair" -> Array(<<call.first, call.second>>)
    [] cb = "nullOnEven" ->
         IF call.first \in EvenIndices THEN Null ELSE Value(call.second)
    [] cb = "undefined" -> UndefinedValue
    [] cb = "empty" -> Array(<<>>)

\* The adapter with the arguments exchanged (jQuery's $.map order).
CallbackCall_ElementFirst(element, i) ==
  [this |-> element, first |-> element, second |-> Ix(i)]

\* Line 618: callback.call(element, i, element).
CallbackCall(element, i) ==
  [this |-> element, first |-> Ix(i), second |-> element]

\* What one return value adds to the new collection: an array adds its
\* elements, null and undefined add nothing, any other datum adds itself.
Contribution(ret) ==
  IF ret.kind \in {"null", "undefined"} THEN <<>> ELSE ret.items

RECURSIVE Flatten(_)
\* The contributions of a sequence of return values, in order.
Flatten(rets) ==
  IF rets = <<>> THEN <<>>
  ELSE Contribution(Head(rets)) \o Flatten(Tail(rets))

\* The calls the map helper makes of the adapter of lines 617-619: one per
\* element, in order, with the element and its index from 0.
MapCalls(collection) ==
  [k \in 1..Len(collection) |-> CallbackCall(collection[k], k - 1)]

\* map(this, ...): the array the map helper builds from the return values.
map(collection, cb) ==
  LET calls == MapCalls(collection)
  IN  Flatten([k \in 1..Len(calls) |-> Apply(cb, calls[k])])

\* new JQ(array): the collection holding the array's entries in order.
JQ(array) == array

\* A call of $.fn.map is about to be made on some collection with some
\* callback.
MapInit ==
  /\ InitDialogs
  /\ attached = {}
  /\ \A d \in Dialogs : ~topAppBar[d]
  /\ bar = BarNew
  /\ controls = {}
  /\ checkbox = CheckboxNew
  /\ select = SelectNew
  /\ ui = UiNew
  /\ \E collection \in Collections, cb \in Callbacks :
       jq = [JqIdle EXCEPT
               !.input = collection, !.before = collection, !.callback = cb]

\* Lines 615-621: $.fn.map.
fnMap ==
  /\ ~jq.done
  /\ jq' = [jq EXCEPT
              !.calls = MapCalls(jq.input),
              !.result = JQ(map(jq.input, jq.callback)),
              !.done = TRUE]
  /\ UNCHANGED <<dialogVars, bar, controls, checkbox, select, ui>>

MapNext == fnMap

MapSpec == MapInit /\ [][MapNext]_vars

\* The entries of collection q at the odd indices (counted from 0).
RECURSIVE OddEntries(_)
OddEntries(q) ==
  IF Len(q) < 2 THEN <<>> ELSE <<q[2]>> \o OddEntries(Tail(Tail(q)))

\* C19: $(...).map(callback) calls the callback once per element of the
\* collection, in order, with the index as first argument, the element as
\* second argument and the element as `this`; the collection returned holds
\* the return values in order, an array contributing each of its elements
\* and null or undefined contributing nothing; the original collection is
\* as it was.
C19_Map ==
  jq.done =>
    /\ jq.input = jq.before
    /\ Len(jq.calls) = Len(jq.input)
    /\ \A k \in 1..Len(jq.input) :
         /\ jq.calls[k].this = jq.input[k]
         /\ jq.calls[k].first = Ix(k - 1)
         /\ jq.calls[k].second = jq.input[k]
    /\ jq.callback \in {"element", "this"} => jq.result = jq.input
    /\ jq.callback = "index" =>
         jq.result = [k \in 1..Len(jq.input) |-> Ix(k - 1)]
    /\ jq.callback = "pair" =>
         /\ Len(jq.result) = 2 * Len(jq.input)
         /\ \A k \in 1..Len(jq.input) :
              /\ jq.result[2 * k - 1] = Ix(k - 1)
              /\ jq.result[2 * k] = jq.input[k]
    /\ jq.callback = "nullOnEven" => jq.result = OddEntries(jq.input)
    /\ jq.callback \in {"undefined", "empty"} => jq.result = <<>>

\* C19 witness: a callback that returns null for some elements and a datum
\* for others was mapped over a collection of the longest length, and the
\* collection returned is shorter than the original.
C19_Witness ==
  /\ jq.done
  /\ jq.callback = "nullOnEven"
  /\ Len(jq.input) = MaxLen
  /\ Len(jq.result) >= 1
  /\ Len(jq.result) < Len(jq.input)


(* ------------------------------- C21 ---------------------------------- *)

\* The number of times the handler calls of dialog d have performed
\* effect e.
CallsOf(d, e) ==
  Cardinality(UNION {{<<k, i>> : i \in {j \in 1..Len(Fx(d, k)) :
                                          Fx(d, k)[j] = e}} :
                     k \in Invs(d)})

\* C21: a dialog never releases the scroll lock more often than it acquired
\* it: in every state the unlockScreen calls the dialog has made are matched
\* by lockScreen calls it made earlier.
C21_MatchedUnlock ==
  \A d \in attached : CallsOf(d, "unlock") <= CallsOf(d, "lock")



(* ------------------------------- C22 ---------------------------------- *)

\* Lines 368-371: disconnectedCallback.  The dialog is removed from the
\* document and calls unlockScreen(this); nothing else of its state is
\* touched, and its handler calls in flight go on.
Disconnect(d) ==
  /\ d \in attached
  /\ hasUpdated[d]
  /\ attached' = attached \ {d}
  /\ lockCount' = UnlockScreen(lockCount)
  /\ UNCHANGED <<open, hasUpdated, changedOld, display, modalActive,
                 originalTrigger, marginTop, topAppBar, written, inv, anims,
                 activeElement, rafFocus, timerQueue, writesLeft, bar,
                 controls, checkbox, select, jq, ui>>

\* A page whose dialogs may be removed from the document.
NextDetach ==
  \/ Next
  \/ \E d \in Dialogs : Disconnect(d)

SpecDetach == InitPlain /\ [][NextDetach]_vars

\* C22: in every reachable state, a dialog whose modal helper is active
\* holds the scroll lock, so scrolling is locked; also after the dialog was
\* disconnected from the document while open.
C22_ModalHoldsLock ==
  \A d \in Dialogs : modalActive[d] => ScrollLocked



(***************************************************************************)
(* Closing by the user (dialog/index.ts lines 373-384, 439-446).           *)
(***************************************************************************)

\* The keys of the keydown events that reach the dialog.
Keys == {"Escape", "Enter"}

ClosesOnEsc_AnyKey(isOpen, closeOnEsc, key) == isOpen /\ closeOnEsc

\* Line 379: this.open && this.closeOnEsc && event.key === 'Escape'.
ClosesOnEsc(isOpen, closeOnEsc, key) ==
  isOpen /\ closeOnEsc /\ key = "Escape"

ClosesOnOverlayClick_Always(closeOnOverlayClick) == TRUE

\* Lines 441-445: the handler returns unless closeOnOverlayClick is set.
ClosesOnOverlayClick(closeOnOverlayClick) == closeOnOverlayClick

\* The record of one user input to dialog d: the flags and `open` as the
\* listener found them, what it did, and `open` afterwards.
Input(d, input, key, fx, now) ==
  [d |-> d, input |-> input, key |-> key,
   closeOnEsc |-> ui.closeOnEsc[d],
   closeOnOverlayClick |-> ui.closeOnOverlayClick[d],
   was |-> open[d], fx |-> fx, now |-> now]

\* The user's input leaves the rest of the page alone.
UserFrame == UNCHANGED <<topAppBar, attached, bar, controls, checkbox, select, jq>>

\* `this.open = false` in a listener: a write when open is true, nothing
\* when it is false already.
AssignClosed(d) ==
  IF open[d] THEN WriteOpen(d, FALSE) ELSE UNCHANGED dialogVars

\* Lines 378-383: the keydown listener registered by firstUpdated.
onKeyDown(d, key) ==
  /\ d \in attached
  /\ hasUpdated[d]
  /\ ui.inputs < MaxInputs
  /\ IF ClosesOnEsc(open[d], ui.closeOnEsc[d], key)
     THEN /\ AssignClosed(d)
          /\ ui' = [ui EXCEPT !.inputs = @ + 1, !.last =
                      Input(d, "keydown", key,
                            <<"stopPropagation", "open=false">>, FALSE)]
     ELSE /\ UNCHANGED dialogVars
          /\ ui' = [ui EXCEPT !.inputs = @ + 1, !.last =
                      Input(d, "keydown", key, <<>>, open[d])]
  /\ UserFrame

\* Lines 439-446: onOverlayClick.
onOverlayClick(d) ==
  /\ d \in attached
  /\ hasUpdated[d]
  /\ ui.inputs < MaxInputs
  /\ IF ClosesOnOverlayClick(ui.closeOnOverlayClick[d])
     THEN /\ AssignClosed(d)
          /\ ui' = [ui EXCEPT !.inputs = @ + 1, !.last =
                      Input(d, "click", "none",
                            <<"emit:overlay-click", "open=false">>, FALSE)]
     ELSE /\ UNCHANGED dialogVars
          /\ ui' = [ui EXCEPT !.inputs = @ + 1, !.last =
                      Input(d, "click", "none",
                            <<"emit:overlay-click">>, open[d])]
  /\ UserFrame

\* A page with one dialog whose close-on flags were set in the markup.
InitUser ==
  /\ InitDialogs
  /\ attached = {"d1"}
  /\ \A d \in Dialogs : ~topAppBar[d]
  /\ bar = BarNew
  /\ controls = {}
  /\ checkbox = CheckboxNew
  /\ select = SelectNew
  /\ jq = JqIdle
  /\ \E esc, overlay \in BOOLEAN :
       ui = [UiNew EXCEPT !.closeOnEsc["d1"] = esc,
                          !.closeOnOverlayClick["d1"] = overlay]

\* The application toggles the dialog only when its previous transition is
\* over; the user presses keys and clicks the overlay at any time.
NextUser ==
  \/ \E d \in Dialogs, v \in BOOLEAN : Quiet(d) /\ SetOpen(d, v)
  \/ \E d \in Dialogs : Update(d)
  \/ \E d \in Dialogs, k \in 1..(MaxWrites + 1) : HandlerStep(d, k)
  \/ \E d \in Dialogs, k \in 1..(MaxWrites + 1) :
       AnimationFinish(d, [owner |-> k, kind |-> "open"])
  \/ \E d \in Dialogs, k \in 1..(MaxWrites + 1) :
       AnimationFinish(d, [owner |-> k, kind |-> "close"])
  \/ TimerFire
  \/ \E d \in Dialogs : RafFire(d)
  \/ \E d \in Dialogs, key \in Keys : onKeyDown(d, key)
  \/ \E d \in Dialogs : onOverlayClick(d)

SpecUser == InitUser /\ [][NextUser]_vars

(* ------------------------------- C23 ---------------------------------- *)

\* This step is a user input to a dialog.
InputStep == ui'.inputs = ui.inputs + 1

\* C23: an Escape keydown sets open = false only when open is true and
\* closeOnEsc is true, and then stops the event's propagation; any other
\* keydown changes nothing.  An overlay click always dispatches
\* 'overlay-click', and sets open = false only when closeOnOverlayClick is
\* true.
C23_UserClose ==
  /\ [](LET e == ui.last
        IN  /\ e.input = "keydown" =>
                 IF e.key = "Escape" /\ e.was /\ e.closeOnEsc
                 THEN ~e.now /\ e.fx = <<"stopPropagation", "open=false">>
                 ELSE e.now = e.was /\ e.fx = <<>>
            /\ e.input = "click" =>
                 /\ e.fx[1] = "emit:overlay-click"
                 /\ IF e.closeOnOverlayClick
                    THEN ~e.now /\ e.fx[2] = "open=false"
                    ELSE e.now = e.was /\ Len(e.fx) = 1)
  /\ [][InputStep =>
          /\ ui'.last.was = open[ui'.last.d]
          /\ ui'.last.now = open'[ui'.last.d]
          /\ ui'.last.closeOnEsc = ui.closeOnEsc[ui'.last.d]
          /\ ui'.last.closeOnOverlayClick = ui.closeOnOverlayClick[ui'.last.d]
          /\ ~Has(ui'.last.fx, "open=false") => UNCHANGED dialogVars]_vars

\* C23 witness: an Escape keydown has closed the open dialog.
C23_Witness ==
  /\ ui.last.input = "keydown"
  /\ ui.last.key = "Escape"
  /\ ui.last.was /\ ~ui.last.now /\ ~open[ui.last.d]
  /\ ui.last.fx = <<"stopPropagation", "open=false">>


(* ------------------------------- C24 ---------------------------------- *)

\* This step is the first render of dialog d, with its open flag false.
FirstRenderClosed(d) == ~hasUpdated[d] /\ hasUpdated'[d] /\ ~open[d]

\* C24: if a dialog's open flag is false at its first render, the handler
\* does nothing: it dispatches neither 'close' nor 'closed', starts no
\* animation and leaves display, the modal helper, the scroll lock and the
\* focus alone.
C24_FirstRenderClosed ==
  /\ [][\A d \in attached :
          FirstRenderClosed(d) =>
            /\ NoSideEffect(d)
            /\ Len(inv'[d]) = Len(inv[d]) + 1
            /\ inv'[d][Len(inv'[d])].pc = "done"]_vars
  /\ [](\A d \in attached : \A k \in Invs(d) :
          (~inv[d][k].hasUpdated /\ ~inv[d][k].dir)
            => Done(d, k) /\ Fx(d, k) = <<>>)

\* C24 witness: the dialog has rendered closed and nothing has happened to
\* it.
C24_Witness ==
  \E d \in attached :
    /\ hasUpdated[d]
    /\ Len(inv[d]) = 1
    /\ ~inv[d][1].dir
    /\ Fx(d, 1) = <<>>
    /\ display[d] = "unset"
    /\ ~modalActive[d]
    /\ anims[d] = {}
    /\ lockCount = 0
    /\ activeElement = "body"



(* ------------------------------- C25 ---------------------------------- *)

\* This step is an update of the checkbox in which `checked` has changed,
\* so that onCheckedChange runs.
CheckedChangeStep ==
  /\ "checkbox" \in controls
  /\ checkbox.old.set /\ ~checkbox'.old.set
  /\ checkbox.old.checked # checkbox.checked

\* In that update onDisabledChange runs too.
DisabledChangeToo ==
  \/ checkbox.old.indeterminate # checkbox.indeterminate
  \/ checkbox.old.required # checkbox.required

\* This step is a run of the select's onValueChange.
ValueChangeStep ==
  "select" \in controls /\ select'.last.op = "valueChange"

\* C25: on a checked change of the checkbox, and on a menu value change of
\* the select, a control registered in formResets gets invalid = false and
\* is removed from the registry, without validation; a control that is not
\* registered gets invalid = the negation of the native validity.  The
\* registry changes in no other way than by a reset, so a reset suppresses
\* the validation of exactly one change.
C25_ResetSkipsValidation ==
  [][/\ CheckedChangeStep =>
          /\ ~checkbox'.resets
          /\ \/ checkbox'.invalid =
                  (IF checkbox.resets THEN FALSE
                   ELSE ~CheckboxValid(checkbox'.input))
             \/ /\ DisabledChangeToo
                /\ checkbox'.invalid = ~CheckboxValid(checkbox'.input)
     /\ (checkbox'.resets # checkbox.resets /\ ~CheckedChangeStep)
          => checkbox'.last.op = "reset" /\ checkbox'.resets
     /\ ValueChangeStep =>
          /\ ~select'.resets
          /\ select'.invalid =
               (IF select.resets THEN FALSE ELSE ~SelectValid(select'.input))
     /\ (select'.resets # select.resets /\ ~ValueChangeStep)
          => select'.last.op = "reset" /\ select'.resets]_vars

\* C25 witness: the checkbox displayed an error, its form was reset, and
\* the update that followed left it without error and out of the registry
\* although its native input is invalid.
C25_Witness ==
  /\ "checkbox" \in controls
  /\ checkbox.last.op = "update"
  /\ checkbox.last.was = "true"
  /\ checkbox.last.native = "invalid"
  /\ ~checkbox.invalid
  /\ ~checkbox.resets



(* ------------------------------- C26 ---------------------------------- *)

\* C26: a single call of runScrollThreshold dispatches at most one intent
\* event and changes hide at most once: it never dispatches both 'hide' and
\* 'show', whatever the hide flag, the scroll direction and the listeners'
\* veto decisions are.
C26_OneIntent ==
  \A e \in BarLog :
    e.input \in {"up", "down"} =>
      /\ Len(e.out) <= 1
      /\ ~(Has(e.out, "hide") /\ Has(e.out, "show"))
      /\ Has(e.out, "hide") => e.input = "down" /\ ~e.was
      /\ Has(e.out, "show") => e.input = "up" /\ e.was
      /\ e.now # e.was => Len(e.out) = 1

\* C26 witness: a scroll down on a shown bar whose listeners call
\* preventDefault() on both intents dispatched 'hide' alone.
C26_Witness ==
  \E e \in BarLog :
    /\ e.input = "down"
    /\ e.cancel.hide /\ e.cancel.show
    /\ ~e.was
    /\ e.out = <<"hide">>



(***************************************************************************)
(* The value of the select when it is connected and when a chip is         *)
(* deleted (select/index.ts lines 289-305, 546-557).                       *)
(***************************************************************************)

\* The string a string value holds ('' when it holds nothing).
StringOf(value) == IF value.items = <<>> THEN "" ELSE value.items[1]

NormalisedValue_Wrap(multiple, value) ==
  IF multiple /\ ~value.isArray THEN Arr(<<StringOf(value)>>) ELSE value

\* Lines 292-297: the value connectedCallback assigns: a string becomes an
\* array when `multiple` is set, [value] if it is truthy and [] if not.
NormalisedValue(multiple, value) ==
  IF multiple /\ ~value.isArray
  THEN IF StringOf(value) # "" THEN Arr(<<StringOf(value)>>) ELSE Arr(<<>>)
  ELSE value

\* Line 298: the defaultValue connectedCallback assigns.
ConnectedDefault(multiple) == IF multiple THEN Arr(<<>>) ELSE Str(<<>>)

\* "string" or "array".
KindOf(value) == IF value.isArray THEN "array" ELSE "string"

\* Lines 289-305: the select is connected to the document.
connectedCallback ==
  /\ "select" \notin controls
  /\ controls' = controls \cup {"select"}
  /\ select' =
       [select EXCEPT
          !.value = NormalisedValue(select.multiple, select.value),
          !.defaultValue = ConnectedDefault(select.multiple),
          !.dirty = TRUE,
          !.last = Did("connected", KindOf(select.value),
                       <<"value", "defaultValue", "requestUpdate">>,
                       "none", "none")]
  /\ UNCHANGED <<dialogVars, bar, checkbox, jq, ui>>

RECURSIVE WithoutFirst(_, _)
\* value.splice(value.indexOf(valueItem), 1): the items without the first
\* occurrence of valueItem.
WithoutFirst(items, valueItem) ==
  IF items = <<>> THEN <<>>
  ELSE IF Head(items) = valueItem THEN Tail(items)
  ELSE <<Head(items)>> \o WithoutFirst(Tail(items), valueItem)

Spliced_All(items, valueItem) ==
  SelectSeq(items, LAMBDA v : v # valueItem)

\* Lines 552-554: the copy after the conditional splice.
Spliced(items, valueItem) ==
  IF Has(items, valueItem) THEN WithoutFirst(items, valueItem) ELSE items

\* Line 550: `[...this.value]` is a copy, so the array that was the value
\* reads after the call as it did before.
PreviousArray(items, valueItem) == items

\* Lines 549-557: the delete button of the chip of valueItem is clicked (a
\* chip may be stale: its value may have left the array since the render).
onDeleteOneValue(valueItem) ==
  /\ "select" \in controls
  /\ select.multiple
  /\ select.value.isArray
  /\ select' =
       [select EXCEPT
          !.value = Arr(Spliced(select.value.items, valueItem)),
          !.held = Arr(PreviousArray(select.value.items, valueItem)),
          !.dirty = TRUE,
          !.last = Did("deleteOne", valueItem, <<"value">>, "none", "none")]
  /\ UNCHANGED <<dialogVars, bar, controls, checkbox, jq, ui>>

\* A select created by a script, which sets multiple, value and
\* defaultValue before it inserts the element.
ValueInit ==
  /\ InitDialogs
  /\ attached = {}
  /\ \A d \in Dialogs : ~topAppBar[d]
  /\ bar = BarNew
  /\ controls = {}
  /\ checkbox = CheckboxNew
  /\ jq = JqIdle
  /\ ui = UiNew
  /\ \E multiple \in BOOLEAN, value, default \in Strings \cup Arrays :
       select = [SelectNew EXCEPT !.multiple = multiple, !.value = value,
                                  !.defaultValue = default]

ValueNext ==
  \/ connectedCallback
  \/ \E valueItem \in Options : onDeleteOneValue(valueItem)

ValueSpec == ValueInit /\ [][ValueNext]_vars

(* ------------------------------- C27 ---------------------------------- *)

\* This step connects the select.
ConnectStep == "select" \notin controls /\ "select" \in controls'

\* C27: when the select is connected, a string value of a multiple select
\* becomes [value] if it is not empty and [] if it is; in every other case
\* the value is left as it was; defaultValue becomes [] if multiple is true
\* and '' otherwise.
C27_ConnectNormalises ==
  [][ConnectStep =>
       /\ select'.multiple = select.multiple
       /\ IF select.multiple /\ ~select.value.isArray
          THEN IF select.value = Str(<<>>)
               THEN select'.value = Arr(<<>>)
               ELSE select'.value = Arr(<<select.value.items[1]>>)
          ELSE select'.value = select.value
       /\ select'.defaultValue =
            (IF select.multiple THEN Arr(<<>>) ELSE Str(<<>>))]_vars

\* C27 witness: a multiple select whose value was the string 'a' has been
\* connected and its value is ['a'].
C27_Witness ==
  /\ "select" \in controls
  /\ select.last.op = "connected"
  /\ select.last.was = "string"
  /\ select.multiple
  /\ select.value = Arr(<<"a">>)
  /\ select.defaultValue = Arr(<<>>)



(* ------------------------------- C28 ---------------------------------- *)

\* This step is a run of onDeleteOneValue.
DeleteStep == "select" \in controls /\ select'.last.op = "deleteOne"

\* C28: deleting one chip of a multiple select removes exactly the first
\* occurrence of that value from the value array and keeps the other
\* entries in their order; the array that was the value is not changed;
\* when the value is not in the array, the new array has the contents of
\* the old one.
C28_DeleteOne ==
  [][DeleteStep =>
       LET old == select.value.items
           new == select'.value.items
           v == select'.last.was
       IN  /\ select'.value.isArray
           /\ select'.held = Arr(old)
           /\ IF Has(old, v)
              THEN \E i \in 1..Len(old) :
                     /\ old[i] = v
                     /\ \A j \in 1..(i - 1) : old[j] # v
                     /\ new = SubSeq(old, 1, i - 1)
                                \o SubSeq(old, i + 1, Len(old))
              ELSE new = old]_vars

\* C28 witness: the chip of 'a' was deleted from ['b', 'a', 'a'], which
\* left ['b', 'a'].
C28_Witness ==
  /\ "select" \in controls
  /\ select.last.op = "deleteOne"
  /\ select.last.was = "a"
  /\ select.held = Arr(<<"b", "a", "a">>)
  /\ select.value = Arr(<<"b", "a">>)


====
